---- MODULE Spec2Model ----
(***************************************************************************)
(* Model of theInternCalc/calculator.py: the FIFO / LIFO / Average-Cost    *)
(* capital-gains engine (process_buy, process_sell, process_transactions,  *)
(* generate_report_df).                                                    *)
(*                                                                         *)
(* Arithmetic: every Python float is modelled as an exact rational <<n,d>> *)
(* in lowest terms with d > 0; binary floating-point rounding is not       *)
(* modelled.  Division is real division and divides by zero only where     *)
(* the program raises ZeroDivisionError.                                   *)
(*                                                                         *)
(* defaultdict stores: the three gain ledgers keep their key sets (a key   *)
(* exists once it has been touched); buy_lots_* and avg_totals are total   *)
(* functions whose default value stands for an absent key, since no code   *)
(* reads their key sets.                                                   *)
(***************************************************************************)
EXTENDS Integers, Sequences, FiniteSets, TLC

(***************************************************************************)
(* Bounds of the model and input domains.                                  *)
(***************************************************************************)
MaxRows == 4

Assets == {"BTC", "ETH"}
AssetOrder == <<"BTC", "ETH">>
Timestamps == {1, 2}
Quantities == {1, 2}

\* the price of each asset in CAD at each timestamp
PriceAt ==
    [a \in Assets |-> IF a = "BTC" THEN <<1, 3>> ELSE <<3, 1>>]

YearOf(ts) == 2022 + ts
Years == {YearOf(t) : t \in Timestamps}

(***************************************************************************)
(* Python float arithmetic, as exact rationals.                            *)
(***************************************************************************)
Abs(n) == IF n < 0 THEN -n ELSE n

RECURSIVE GCD(_, _)
GCD(a, b) == IF b = 0 THEN a ELSE GCD(b, a % b)

Norm(n, d) ==
    LET g == GCD(Abs(n), Abs(d))
        s == IF d < 0 THEN -1 ELSE 1
    IN  <<(s * n) \div g, (s * d) \div g>>

Float(n) == <<n, 1>>
Zero == Float(0)

FAdd(x, y) == Norm(x[1] * y[2] + y[1] * x[2], x[2] * y[2])
FSub(x, y) == Norm(x[1] * y[2] - y[1] * x[2], x[2] * y[2])
FMul(x, y) == Norm(x[1] * y[1], x[2] * y[2])
FDiv(x, y) == Norm(x[1] * y[2], x[2] * y[1])
FGt(x, y) == x[1] * y[2] > y[1] * x[2]
FGe(x, y) == x[1] * y[2] >= y[1] * x[2]
FMin(x, y) == IF FGt(x, y) THEN y ELSE x
FMax(x, y) == IF FGt(y, x) THEN y ELSE x

RECURSIVE SumQuantity(_)
SumQuantity(lots) ==
    IF lots = <<>> THEN Zero
    ELSE FAdd(SumQuantity(Tail(lots)), Head(lots).quantity)

(***************************************************************************)
(* Transaction Type strings, as sequences of characters, and the           *)
(* normalisation row["Transaction Type"].strip().upper().                  *)
(***************************************************************************)
Upper(c) ==
    CASE c = "b" -> "B" [] c = "u" -> "U" [] c = "y" -> "Y"
      [] c = "s" -> "S" [] c = "e" -> "E" [] c = "l" -> "L"
      [] c = "h" -> "H" [] c = "o" -> "O" [] c = "d" -> "D"
      [] OTHER -> c

RECURSIVE LStrip(_)
LStrip(s) == IF s # <<>> /\ Head(s) = " " THEN LStrip(Tail(s)) ELSE s

RECURSIVE RStrip(_)
RStrip(s) ==
    IF s # <<>> /\ s[Len(s)] = " " THEN RStrip(SubSeq(s, 1, Len(s) - 1)) ELSE s

Strip(s) == RStrip(LStrip(s))

\* mutant: .upper() without .strip()
Normalize_upper_only(s) == [i \in 1..Len(s) |-> Upper(s[i])]

Normalize(s) == LET t == Strip(s) IN [i \in 1..Len(t) |-> Upper(t[i])]

BUY == <<"B", "U", "Y">>
SELL == <<"S", "E", "L", "L">>

TypeStrings ==
    { BUY, <<" ", "b", "u", "y">>,
      SELL, <<"S", "e", "l", "l", " ">>,
      <<"H", "O", "L", "D">> }

\* each asset's rows come from one export, which spells BUY and SELL in one way
Spelling ==
    [a \in Assets |->
        IF a = "BTC" THEN {BUY, SELL}
        ELSE {<<" ", "b", "u", "y">>, <<"S", "e", "l", "l", " ">>}]

(***************************************************************************)
(* Rows of the input DataFrame.  Asset Price in CAD is the asset's price   *)
(* at the row's timestamp and Transaction Value in CAD = Quantity x Asset  *)
(* Price in CAD.  Quantity is positive on every row (input contract),      *)
(* except that a SELL row may declare quantity 0, the data error met at    *)
(* line 120.                                                               *)
(***************************************************************************)
AllRows ==
    { [ UTC_Timestamp |-> ts,
        Transaction_Type |-> tt,
        Asset |-> a,
        Quantity |-> q,
        Asset_Price_in_CAD |-> PriceAt[a][ts],
        Transaction_Value_in_CAD |-> q * PriceAt[a][ts] ] :
      ts \in Timestamps, tt \in TypeStrings, a \in Assets,
      q \in Quantities \cup {0} }

Rows ==
    { r \in AllRows :
        /\ Normalize(r.Transaction_Type) # SELL => r.Quantity > 0
        /\ Normalize(r.Transaction_Type) \in {BUY, SELL} =>
               r.Transaction_Type \in Spelling[r.Asset] }

VARIABLES
    pc,                     \* where process_transactions / main stands
    nrows,                  \* rows of df consumed by the loop at line 215
    lastTs,                 \* timestamp of the last row consumed (df is sorted)
    buy_lots_fifo,
    buy_lots_lifo,
    avg_totals,
    fifo_gains,
    lifo_gains,
    avg_cost_gains,
    enhanced_transactions,
    report,                 \* rows of the DataFrame generate_report_df returned
    written,                \* the output files main has written
    bought,                 \* history: per asset, sum of Quantity over BUY rows
    sold,                   \* history: per asset, sum of Quantity over SELL rows
    sell_keys,              \* history: the (asset, year) pairs of the SELL rows
    solo                    \* history: per asset, the stores of a run fed only
                            \* that asset's rows, in the same order

store == <<buy_lots_fifo, buy_lots_lifo, avg_totals, fifo_gains, lifo_gains,
           avg_cost_gains, enhanced_transactions>>

vars == <<pc, nrows, lastTs, buy_lots_fifo, buy_lots_lifo, avg_totals,
          fifo_gains, lifo_gains, avg_cost_gains, enhanced_transactions, report,
          written, bought, sold, sell_keys, solo>>


(***************************************************************************)
(* defaultdict(lambda: defaultdict(float)): asset -> year -> float.        *)
(***************************************************************************)
EmptyDict == [k \in {} |-> Zero]

\* d[asset][year] += amount
AddGain(d, asset, year, amount) ==
    LET inner == IF asset \in DOMAIN d THEN d[asset] ELSE EmptyDict
        cur == IF year \in DOMAIN inner THEN inner[year] ELSE Zero
        inner2 == [y \in DOMAIN inner \cup {year} |->
                     IF y = year THEN FAdd(cur, amount) ELSE inner[y]]
    IN  [k \in DOMAIN d \cup {asset} |-> IF k = asset THEN inner2 ELSE d[k]]

\* d[asset].get(year, 0.0) on a dict that holds the asset
Get(d, asset, year) ==
    IF asset \in DOMAIN d /\ year \in DOMAIN d[asset] THEN d[asset][year] ELSE Zero

Keys(d) == {<<a, y>> \in Assets \X Years : a \in DOMAIN d /\ y \in DOMAIN d[a]}

(***************************************************************************)
(* process_buy                                                             *)
(***************************************************************************)
Lot(row) ==
    [ quantity |-> Float(row.Quantity),
      price |-> Float(row.Asset_Price_in_CAD),
      timestamp |-> row.UTC_Timestamp ]

\* mutant: every asset's list is the same list object
buy_append_shared(row, lots) ==
    [a \in DOMAIN lots |-> Append(lots[a], Lot(row))]

buy_append(row, lots) ==
    [lots EXCEPT ![row.Asset] = Append(@, Lot(row))]

\* mutant: line 101 is missing, the quantity is not added
buy_avg_cost_only(row, totals) ==
    [totals EXCEPT ![row.Asset] =
        [ total_cost |-> FAdd(@.total_cost, Float(row.Transaction_Value_in_CAD)),
          quantity |-> @.quantity ]]

buy_avg(row, totals) ==
    [totals EXCEPT ![row.Asset] =
        [ total_cost |-> FAdd(@.total_cost, Float(row.Transaction_Value_in_CAD)),
          quantity |-> FAdd(@.quantity, Float(row.Quantity)) ]]

\* mutant: the lot is appended to the FIFO inventory only
process_buy_fifo_only(row, S) ==
    [S EXCEPT !.buy_lots_fifo = buy_append(row, @),
              !.avg_totals = buy_avg(row, @)]

\* the stores process_transactions creates at lines 206-213, as one record
process_buy(row, S) ==
    [S EXCEPT !.buy_lots_fifo = buy_append(row, @),
              !.buy_lots_lifo = buy_append(row, @),
              !.avg_totals = buy_avg(row, @)]

(***************************************************************************)
(* process_sell, lines 115-120: the fields read from the row.              *)
(***************************************************************************)
quantity(row) == Float(row.Quantity)
total_value(row) == Float(row.Transaction_Value_in_CAD)
sale_price(row) == FDiv(total_value(row), quantity(row))
\* mutant: the gain is booked in the year after the sale
year_after(row) == YearOf(row.UTC_Timestamp) + 1

year(row) == YearOf(row.UTC_Timestamp)

\* total_value / quantity raises ZeroDivisionError
ZeroDivision(row) == quantity(row) = Zero

(***************************************************************************)
(* process_sell, lines 122-153: FIFO matching and the enhanced portion.    *)
(***************************************************************************)
\* mutant: the cost basis is always that of the whole lot
matched_gain_whole_lot(units, lot, price) ==
    LET cost_basis == FMul(lot.quantity, lot.price)
    IN  FSub(FMul(units, price), cost_basis)

\* units x sale_price - cost_basis, with cost_basis = units x lot["price"]
matched_gain(units, lot, price) ==
    LET cost_basis == FMul(units, lot.price)
    IN  FSub(FMul(units, price), cost_basis)

\* mutant: line 128 tests >= instead of >, a lot taken whole stays with 0 units
RECURSIVE fifo_loop_keeps_empty(_, _, _, _, _, _)
fifo_loop_keeps_empty(lots, remaining_fifo, gains, asset, yr, price) ==
    IF FGt(remaining_fifo, Zero) /\ lots # <<>>
    THEN LET lot == lots[1] IN
         IF FGe(lot.quantity, remaining_fifo)
         THEN fifo_loop_keeps_empty(
                  <<[lot EXCEPT !.quantity = FSub(@, remaining_fifo)]>> \o Tail(lots),
                  Zero,
                  AddGain(gains, asset, yr, matched_gain(remaining_fifo, lot, price)),
                  asset, yr, price)
         ELSE fifo_loop_keeps_empty(
                  Tail(lots),
                  FSub(remaining_fifo, lot.quantity),
                  AddGain(gains, asset, yr, matched_gain(lot.quantity, lot, price)),
                  asset, yr, price)
    ELSE [lots |-> lots, gains |-> gains]

RECURSIVE fifo_loop(_, _, _, _, _, _)
fifo_loop(lots, remaining_fifo, gains, asset, yr, price) ==
    IF FGt(remaining_fifo, Zero) /\ lots # <<>>
    THEN LET lot == lots[1] IN
         IF FGt(lot.quantity, remaining_fifo)
         THEN fifo_loop(<<[lot EXCEPT !.quantity = FSub(@, remaining_fifo)]>>
                            \o Tail(lots),
                        Zero,
                        AddGain(gains, asset, yr,
                                matched_gain(remaining_fifo, lot, price)),
                        asset, yr, price)
         ELSE fifo_loop(Tail(lots),
                        FSub(remaining_fifo, lot.quantity),
                        AddGain(gains, asset, yr,
                                matched_gain(lot.quantity, lot, price)),
                        asset, yr, price)
    ELSE [lots |-> lots, gains |-> gains]

available(lots) == SumQuantity(lots)

\* mutant: the declared quantity is taken as matched, without min
matched_declared(row, lots) == quantity(row)

matched(row, lots) == FMin(quantity(row), available(lots))

EnhancedRecord(row, matched_fifo) ==
    LET enhanced_qty == FSub(quantity(row), matched_fifo) IN
    [ UTC_Timestamp |-> row.UTC_Timestamp,
      Asset |-> row.Asset,
      Transaction_Type |-> row.Transaction_Type,
      Quantity |-> quantity(row),
      Matched_Quantity |-> matched_fifo,
      Enhanced_Quantity |-> enhanced_qty,
      Sale_Price_in_CAD |-> sale_price(row),
      Enhanced_Transaction_Value_in_CAD |-> FMul(enhanced_qty, sale_price(row)),
      Data_Status |-> "enhanced" ]

\* mutant: a record equal to one already in the list is not appended again
sell_fifo_dedup(row, lots, gains, enhanced) ==
    LET asset == row.Asset
        matched_fifo == matched(row, lots[asset])
        m == fifo_loop(lots[asset], matched_fifo, gains, asset, year(row),
                       sale_price(row))
        enhanced_qty == FSub(quantity(row), matched_fifo)
        rec == EnhancedRecord(row, matched_fifo)
    IN  IF FGt(enhanced_qty, Zero)
        THEN [ lots |-> [lots EXCEPT ![asset] = m.lots],
               gains |-> AddGain(m.gains, asset, year(row),
                                 FMul(enhanced_qty, sale_price(row))),
               enhanced |-> IF \E i \in 1..Len(enhanced) : enhanced[i] = rec
                            THEN enhanced ELSE Append(enhanced, rec) ]
        ELSE [ lots |-> [lots EXCEPT ![asset] = m.lots],
               gains |-> m.gains,
               enhanced |-> enhanced ]

sell_fifo(row, lots, gains, enhanced) ==
    LET asset == row.Asset
        matched_fifo == matched(row, lots[asset])
        m == fifo_loop(lots[asset], matched_fifo, gains, asset, year(row),
                       sale_price(row))
        enhanced_qty == FSub(quantity(row), matched_fifo)
    IN  IF FGt(enhanced_qty, Zero)
        THEN [ lots |-> [lots EXCEPT ![asset] = m.lots],
               gains |-> AddGain(m.gains, asset, year(row),
                                 FMul(enhanced_qty, sale_price(row))),
               enhanced |-> Append(enhanced, EnhancedRecord(row, matched_fifo)) ]
        ELSE [ lots |-> [lots EXCEPT ![asset] = m.lots],
               gains |-> m.gains,
               enhanced |-> enhanced ]

(***************************************************************************)
(* process_sell, lines 155-173: LIFO matching.                             *)
(***************************************************************************)
\* mutant: the LIFO pass reads and pops the oldest lot, as the FIFO pass does
RECURSIVE lifo_loop_oldest(_, _, _, _, _, _)
lifo_loop_oldest(lots, remaining_lifo, gains, asset, yr, price) ==
    IF FGt(remaining_lifo, Zero) /\ lots # <<>>
    THEN LET lot == lots[1] IN
         IF FGt(lot.quantity, remaining_lifo)
         THEN lifo_loop_oldest(
                  <<[lot EXCEPT !.quantity = FSub(@, remaining_lifo)]>> \o Tail(lots),
                  Zero,
                  AddGain(gains, asset, yr, matched_gain(remaining_lifo, lot, price)),
                  asset, yr, price)
         ELSE lifo_loop_oldest(
                  Tail(lots),
                  FSub(remaining_lifo, lot.quantity),
                  AddGain(gains, asset, yr, matched_gain(lot.quantity, lot, price)),
                  asset, yr, price)
    ELSE [lots |-> lots, gains |-> gains]

RECURSIVE lifo_loop(_, _, _, _, _, _)
lifo_loop(lots, remaining_lifo, gains, asset, yr, price) ==
    IF FGt(remaining_lifo, Zero) /\ lots # <<>>
    THEN LET lot == lots[Len(lots)]
             front == SubSeq(lots, 1, Len(lots) - 1) IN
         IF FGt(lot.quantity, remaining_lifo)
         THEN lifo_loop(Append(front,
                               [lot EXCEPT !.quantity = FSub(@, remaining_lifo)]),
                        Zero,
                        AddGain(gains, asset, yr,
                                matched_gain(remaining_lifo, lot, price)),
                        asset, yr, price)
         ELSE lifo_loop(front,
                        FSub(remaining_lifo, lot.quantity),
                        AddGain(gains, asset, yr,
                                matched_gain(lot.quantity, lot, price)),
                        asset, yr, price)
    ELSE [lots |-> lots, gains |-> gains]

\* mutant: lines 172-173 are missing, the unmatched part adds nothing
sell_lifo_matched_only(row, lots, gains) ==
    LET asset == row.Asset
        matched_lifo == matched(row, lots[asset])
        m == lifo_loop(lots[asset], matched_lifo, gains, asset, year(row),
                       sale_price(row))
    IN  [ lots |-> [lots EXCEPT ![asset] = m.lots],
          gains |-> m.gains ]

sell_lifo(row, lots, gains) ==
    LET asset == row.Asset
        matched_lifo == matched(row, lots[asset])
        m == lifo_loop(lots[asset], matched_lifo, gains, asset, year(row),
                       sale_price(row))
    IN  [ lots |-> [lots EXCEPT ![asset] = m.lots],
          gains |-> IF FGt(FSub(quantity(row), matched_lifo), Zero)
                    THEN AddGain(m.gains, asset, year(row),
                                 FMul(FSub(quantity(row), matched_lifo),
                                      sale_price(row)))
                    ELSE m.gains ]

(***************************************************************************)
(* process_sell, lines 175-183: Average Cost.                              *)
(***************************************************************************)
\* mutant: the cumulative cost is taken as the unit cost, without the division
avg_cost_undivided(totals) ==
    IF FGt(totals.quantity, Zero)
    THEN totals.total_cost
    ELSE Zero

avg_cost(totals) ==
    IF FGt(totals.quantity, Zero)
    THEN FDiv(totals.total_cost, totals.quantity)
    ELSE Zero

\* mutant: nothing is booked when the asset is not held
sell_avg_gain_if_held(row, totals, gains) ==
    IF FGt(totals[row.Asset].quantity, Zero)
    THEN AddGain(gains, row.Asset, year(row),
                 FMul(quantity(row),
                      FSub(sale_price(row), avg_cost(totals[row.Asset]))))
    ELSE gains

sell_avg_gain(row, totals, gains) ==
    AddGain(gains, row.Asset, year(row),
            FMul(quantity(row),
                 FSub(sale_price(row), avg_cost(totals[row.Asset]))))

\* mutant: the two max(0, ...) clamps are missing
sell_avg_totals_unclamped(row, totals) ==
    LET t == totals[row.Asset]
        matched_avg == FMin(quantity(row), t.quantity)
    IN  [totals EXCEPT ![row.Asset] =
            [ quantity |-> FSub(t.quantity, quantity(row)),
              total_cost |-> FSub(t.total_cost, FMul(matched_avg, avg_cost(t))) ]]

\* mutant: the average cost is computed after the quantity has been reduced
sell_avg_totals_avg_after_update(row, totals) ==
    LET t == totals[row.Asset]
        matched_avg == FMin(quantity(row), t.quantity)
        reduced == FMax(Zero, FSub(t.quantity, quantity(row)))
        late == avg_cost([quantity |-> reduced, total_cost |-> t.total_cost])
    IN  [totals EXCEPT ![row.Asset] =
            [ quantity |-> reduced,
              total_cost |-> FMax(Zero, FSub(t.total_cost,
                                             FMul(matched_avg, late))) ]]

sell_avg_totals(row, totals) ==
    LET t == totals[row.Asset]
        available_avg == t.quantity
        matched_avg == FMin(quantity(row), available_avg)
    IN  [totals EXCEPT ![row.Asset] =
            [ quantity |-> FMax(Zero, FSub(t.quantity, quantity(row))),
              total_cost |-> FMax(Zero, FSub(t.total_cost,
                                             FMul(matched_avg, avg_cost(t)))) ]]

process_sell(row, S) ==
    LET F == sell_fifo(row, S.buy_lots_fifo, S.fifo_gains, S.enhanced_transactions)
        L == sell_lifo(row, S.buy_lots_lifo, S.lifo_gains)
    IN  [ buy_lots_fifo |-> F.lots,
          buy_lots_lifo |-> L.lots,
          avg_totals |-> sell_avg_totals(row, S.avg_totals),
          fifo_gains |-> F.gains,
          lifo_gains |-> L.gains,
          avg_cost_gains |-> sell_avg_gain(row, S.avg_totals, S.avg_cost_gains),
          enhanced_transactions |-> F.enhanced ]

(***************************************************************************)
(* generate_report_df                                                      *)
(***************************************************************************)
AssetRank(a) == CHOOSE i \in 1..Len(AssetOrder) : AssetOrder[i] = a

\* sorted(...) of a set of asset names
sorted_assets(set) ==
    SelectSeq(AssetOrder, LAMBDA a : a \in set)

\* sorted(...) of a set of years
RECURSIVE sorted_years(_)
sorted_years(set) ==
    IF set = {} THEN <<>>
    ELSE LET m == CHOOSE y \in set : \A z \in set : y <= z
         IN  <<m>> \o sorted_years(set \ {m})

years_of(d, asset) == IF asset \in DOMAIN d THEN DOMAIN d[asset] ELSE {}

report_row(fg, lg, ag, asset, yr) ==
    [ Year |-> yr,
      Asset |-> asset,
      LIFO_GL |-> Get(lg, asset, yr),
      FIFO_GL |-> Get(fg, asset, yr),
      ACB_GL |-> Get(ag, asset, yr) ]

\* the rows appended by the two nested loops, lines 242-251
build_rows(fg, lg, ag) ==
    LET assets == sorted_assets(DOMAIN fg \cup DOMAIN lg \cup DOMAIN ag)
        rows_of(asset) ==
            LET ys == sorted_years(years_of(fg, asset) \cup years_of(lg, asset)
                                       \cup years_of(ag, asset))
            IN  [i \in 1..Len(ys) |-> report_row(fg, lg, ag, asset, ys[i])]
        RECURSIVE concat(_)
        concat(i) == IF i > Len(assets) THEN <<>>
                     ELSE rows_of(assets[i]) \o concat(i + 1)
    IN  concat(1)

\* mutant: both columns ascending
sorts_before_ascending(r1, r2) ==
    \/ r1.Year < r2.Year
    \/ r1.Year = r2.Year /\ AssetRank(r1.Asset) < AssetRank(r2.Asset)

\* by=["Year", "Asset"], ascending=[False, True]
sorts_before(r1, r2) ==
    \/ r1.Year > r2.Year
    \/ r1.Year = r2.Year /\ AssetRank(r1.Asset) < AssetRank(r2.Asset)

RECURSIVE insert_row(_, _)
insert_row(sorted, r) ==
    IF sorted = <<>> THEN <<r>>
    ELSE IF sorts_before(r, Head(sorted)) THEN <<r>> \o sorted
    ELSE <<Head(sorted)>> \o insert_row(Tail(sorted), r)

RECURSIVE sort_values(_)
sort_values(rows) ==
    IF rows = <<>> THEN <<>>
    ELSE insert_row(sort_values(SubSeq(rows, 1, Len(rows) - 1)), rows[Len(rows)])

generate_report_df(fg, lg, ag) == sort_values(build_rows(fg, lg, ag))

\* mutant: the entries are popped as they are read
touched_popped(d, fg, lg, ag) ==
    LET all == DOMAIN fg \cup DOMAIN lg \cup DOMAIN ag
    IN  [a \in all |-> EmptyDict]

\* the lookups d[asset] at lines 243-250 create the asset key in each ledger
touched(d, fg, lg, ag) ==
    LET all == DOMAIN fg \cup DOMAIN lg \cup DOMAIN ag
    IN  [a \in all |-> IF a \in DOMAIN d THEN d[a] ELSE EmptyDict]

(***************************************************************************)
(* The state machine: main calls process_transactions, then                *)
(* generate_report_df.                                                     *)
(***************************************************************************)
Store ==
    [ buy_lots_fifo |-> buy_lots_fifo,
      buy_lots_lifo |-> buy_lots_lifo,
      avg_totals |-> avg_totals,
      fifo_gains |-> fifo_gains,
      lifo_gains |-> lifo_gains,
      avg_cost_gains |-> avg_cost_gains,
      enhanced_transactions |-> enhanced_transactions ]

EmptyStore ==
    [ buy_lots_fifo |-> [a \in Assets |-> <<>>],
      buy_lots_lifo |-> [a \in Assets |-> <<>>],
      avg_totals |-> [a \in Assets |-> [quantity |-> Zero, total_cost |-> Zero]],
      fifo_gains |-> EmptyDict,
      lifo_gains |-> EmptyDict,
      avg_cost_gains |-> EmptyDict,
      enhanced_transactions |-> <<>> ]

Init ==
    /\ pc = "start"
    /\ nrows = 0
    /\ lastTs = 0
    /\ buy_lots_fifo = EmptyStore.buy_lots_fifo
    /\ buy_lots_lifo = EmptyStore.buy_lots_lifo
    /\ avg_totals = EmptyStore.avg_totals
    /\ fifo_gains = EmptyDict
    /\ lifo_gains = EmptyDict
    /\ avg_cost_gains = EmptyDict
    /\ enhanced_transactions = <<>>
    /\ report = <<>>
    /\ written = {}
    /\ bought = [a \in Assets |-> 0]
    /\ sold = [a \in Assets |-> 0]
    /\ sell_keys = {}
    /\ solo = [a \in Assets |-> EmptyStore]

\* mutant: the df.empty test of line 86 is missing
Validate_columns_only(missing_cols, empty) ==
    /\ pc = "start"
    /\ pc' = IF missing_cols THEN "invalid" ELSE "loop"
    /\ UNCHANGED <<nrows, lastTs, store, report, written, bought, sold, sell_keys,
                   solo>>

\* validate_dataframe, called at line 202, and the sort at line 204; main
\* catches InvalidDataError at line 335
Validate(missing_cols, empty) ==
    /\ pc = "start"
    /\ pc' = IF missing_cols \/ empty THEN "invalid" ELSE "loop"
    /\ UNCHANGED <<nrows, lastTs, store, report, written, bought, sold, sell_keys,
                   solo>>

\* the loop at line 215 yields the next row of the sorted frame
Fetch(row) ==
    /\ pc = "loop"
    /\ nrows < MaxRows
    /\ row.UTC_Timestamp >= lastTs
    /\ nrows' = nrows + 1
    /\ lastTs' = row.UTC_Timestamp
    /\ report' = report
    /\ written' = written

ttype(row) == Normalize(row.Transaction_Type)

RowBuy(row) ==
    /\ Fetch(row)
    /\ ttype(row) = BUY
    /\ pc' = "loop"
    /\ LET S == process_buy(row, Store) IN
        /\ avg_totals' = S.avg_totals
        /\ buy_lots_fifo' = S.buy_lots_fifo
        /\ buy_lots_lifo' = S.buy_lots_lifo
        /\ fifo_gains' = S.fifo_gains
        /\ lifo_gains' = S.lifo_gains
        /\ avg_cost_gains' = S.avg_cost_gains
        /\ enhanced_transactions' = S.enhanced_transactions
    /\ bought' = [bought EXCEPT ![row.Asset] = @ + row.Quantity]
    /\ sold' = sold
    /\ sell_keys' = sell_keys
    /\ solo' = [solo EXCEPT ![row.Asset] = process_buy(row, @)]

RowSell(row) ==
    /\ Fetch(row)
    /\ ttype(row) = SELL
    /\ ~ZeroDivision(row)
    /\ pc' = "loop"
    /\ avg_totals' = sell_avg_totals(row, avg_totals)
    /\ avg_cost_gains' = sell_avg_gain(row, avg_totals, avg_cost_gains)
    /\ LET F == sell_fifo(row, buy_lots_fifo, fifo_gains, enhanced_transactions) IN
        /\ buy_lots_fifo' = F.lots
        /\ fifo_gains' = F.gains
        /\ enhanced_transactions' = F.enhanced
    /\ LET L == sell_lifo(row, buy_lots_lifo, lifo_gains) IN
        /\ buy_lots_lifo' = L.lots
        /\ lifo_gains' = L.gains
    /\ bought' = bought
    /\ sold' = [sold EXCEPT ![row.Asset] = @ + row.Quantity]
    /\ sell_keys' = sell_keys \cup {<<row.Asset, YearOf(row.UTC_Timestamp)>>}
    /\ solo' = [solo EXCEPT ![row.Asset] = process_sell(row, @)]

\* line 120 raises ZeroDivisionError; main catches it at line 341
RowSellZeroDivision(row) ==
    /\ Fetch(row)
    /\ ttype(row) = SELL
    /\ ZeroDivision(row)
    /\ pc' = "crashed"
    /\ UNCHANGED <<store, bought, sold, sell_keys, solo>>

\* neither branch of lines 217-221 is taken
RowIgnored(row) ==
    /\ Fetch(row)
    /\ ttype(row) # BUY
    /\ ttype(row) # SELL
    /\ pc' = "loop"
    /\ UNCHANGED <<store, bought, sold, sell_keys, solo>>

\* the frame is exhausted; it held at least one row (line 86)
Return ==
    /\ pc = "loop"
    /\ nrows >= 1
    /\ pc' = "returned"
    /\ UNCHANGED <<nrows, lastTs, store, report, written, bought, sold, sell_keys,
                   solo>>

\* main, lines 318-330: the report is built and written, and the enhanced
\* transactions are written if there are any
GenerateReport ==
    /\ pc = "returned"
    /\ pc' = "reported"
    /\ report' = generate_report_df(fifo_gains, lifo_gains, avg_cost_gains)
    /\ written' = IF enhanced_transactions # <<>>
                  THEN {"report", "enhanced_transactions"}
                  ELSE {"report"}
    /\ fifo_gains' = touched(fifo_gains, fifo_gains, lifo_gains, avg_cost_gains)
    /\ lifo_gains' = touched(lifo_gains, fifo_gains, lifo_gains, avg_cost_gains)
    /\ avg_cost_gains' = touched(avg_cost_gains, fifo_gains, lifo_gains, avg_cost_gains)
    /\ UNCHANGED <<nrows, lastTs, buy_lots_fifo, buy_lots_lifo, avg_totals,
                   enhanced_transactions, bought, sold, sell_keys, solo>>

\* one iteration of the loop at lines 215-221 on the given row
Dispatch(row) ==
    \/ RowBuy(row)
    \/ RowSell(row)
    \/ RowSellZeroDivision(row)
    \/ RowIgnored(row)

Next ==
    \/ \E missing_cols \in BOOLEAN, empty \in BOOLEAN : Validate(missing_cols, empty)
    \/ \E row \in Rows : Dispatch(row)
    \/ Return
    \/ GenerateReport

Spec == Init /\ [][Next]_vars

(***************************************************************************)
(* generate_report_df as a function of any three ledgers: the ledgers are  *)
(* drawn from bounded sets and the function is applied to them.            *)
(***************************************************************************)
InnerDicts(v) == UNION {[ys -> {v}] : ys \in SUBSET Years}

LedgerInputs(v) == UNION {[as -> InnerDicts(v)] : as \in SUBSET Assets}

InitReport ==
    /\ pc = "returned"
    /\ nrows = 0
    /\ lastTs = 0
    /\ buy_lots_fifo = EmptyStore.buy_lots_fifo
    /\ buy_lots_lifo = EmptyStore.buy_lots_lifo
    /\ avg_totals = EmptyStore.avg_totals
    /\ fifo_gains \in LedgerInputs(<<1, 1>>)
    /\ lifo_gains \in LedgerInputs(<<2, 1>>)
    /\ avg_cost_gains \in LedgerInputs(<<-3, 2>>)
    /\ enhanced_transactions = <<>>
    /\ report = <<>>
    /\ written = {}
    /\ bought = [a \in Assets |-> 0]
    /\ sold = [a \in Assets |-> 0]
    /\ sell_keys = {}
    /\ solo = [a \in Assets |-> EmptyStore]

NextReport == GenerateReport

SpecReport == InitReport /\ [][NextReport]_vars

(***************************************************************************)
(* Vocabulary of the properties.                                           *)
(***************************************************************************)
\* the inner dict of a ledger for an asset, empty when the key is absent
LedgerOf(d, a) == IF a \in DOMAIN d THEN d[a] ELSE EmptyDict

\* the gain of an asset summed over all years
RECURSIVE SumOver(_, _)
SumOver(inner, ys) ==
    IF ys = {} THEN Zero
    ELSE LET y == CHOOSE z \in ys : TRUE
         IN  FAdd(inner[y], SumOver(inner, ys \ {y}))

TotalGain(d, a) == SumOver(LedgerOf(d, a), DOMAIN LedgerOf(d, a))

EnhancedOf(enhanced, a) == SelectSeq(enhanced, LAMBDA e : e.Asset = a)

\* everything a store holds about one asset
Proj(S, a) ==
    [ fifo |-> S.buy_lots_fifo[a],
      lifo |-> S.buy_lots_lifo[a],
      avg |-> S.avg_totals[a],
      fifo_gains |-> LedgerOf(S.fifo_gains, a),
      lifo_gains |-> LedgerOf(S.lifo_gains, a),
      avg_cost_gains |-> LedgerOf(S.avg_cost_gains, a),
      enhanced |-> EnhancedOf(S.enhanced_transactions, a) ]

(***************************************************************************)
(* The rows a step of the loop can have dispatched: those of the step's    *)
(* timestamp and, when the step moved an asset's BUY or SELL total, of     *)
(* that asset and quantity.  Every row that Dispatch accepts for a step is *)
(* among them (StepRowsCover).                                             *)
(***************************************************************************)
RowsAt == [t \in Timestamps |-> {r \in Rows : r.UTC_Timestamp = t}]

RowsBy ==
    [t \in Timestamps |-> [a \in Assets |-> [q \in Quantities \cup {0} |->
        {r \in Rows : r.UTC_Timestamp = t /\ r.Asset = a /\ r.Quantity = q}]]]

StepRows ==
    IF nrows' # nrows + 1 THEN {}
    ELSE LET moved == {a \in Assets : bought'[a] # bought[a] \/ sold'[a] # sold[a]}
         IN  IF moved = {} THEN RowsAt[lastTs']
             ELSE UNION {RowsBy[lastTs'][a][(bought'[a] - bought[a])
                                              + (sold'[a] - sold[a])] : a \in moved}

\* the step is the BUY (the SELL) of the row; a BUY or SELL step moves a total
StepBuy(row) == bought' # bought /\ RowBuy(row)
StepSell(row) == sold' # sold /\ RowSell(row)

\* the step is the dispatch of the row, by whichever branch
StepDispatch(row) ==
    \/ StepBuy(row)
    \/ StepSell(row)
    \/ /\ bought' = bought
       /\ sold' = sold
       /\ RowSellZeroDivision(row) \/ RowIgnored(row)

StepRowsCover ==
    [][\A row \in Rows :
          /\ Dispatch(row) => row \in StepRows
          /\ RowBuy(row) => StepBuy(row)
          /\ RowSell(row) => StepSell(row)
          /\ Dispatch(row) => StepDispatch(row)]_vars

(***************************************************************************)
(* C1.  Conservation: for every asset the remaining quantities of the FIFO *)
(* inventory and of the LIFO inventory have the same sum, in every state.  *)
(***************************************************************************)
C1_Conservation ==
    \A a \in Assets :
        SumQuantity(buy_lots_fifo[a]) = SumQuantity(buy_lots_lifo[a])

\* a sale has been matched and left the two inventories with different lots
C1_Witness ==
    \E a \in Assets :
        /\ sold[a] > 0
        /\ buy_lots_fifo[a] # <<>>
        /\ buy_lots_fifo[a] # buy_lots_lifo[a]

(***************************************************************************)
(* C4.  As claimed: whenever the total BUY quantity of an asset equals its *)
(* total SELL quantity, its FIFO gain summed over all years equals its     *)
(* LIFO gain summed over all years, for any interleaving.                  *)
(***************************************************************************)
C4_AsClaimed ==
    \A a \in Assets :
        bought[a] = sold[a] =>
            TotalGain(fifo_gains, a) = TotalGain(lifo_gains, a)

(***************************************************************************)
(* C4, amended.  Whenever the total BUY quantity of an asset equals its    *)
(* total SELL quantity and every SELL of the asset was fully matched (no   *)
(* enhanced-sale record for the asset), its FIFO gain summed over all      *)
(* years equals its LIFO gain summed over all years.                       *)
(***************************************************************************)
C4_FullMatch ==
    \A a \in Assets :
        (bought[a] = sold[a] /\ EnhancedOf(enhanced_transactions, a) = <<>>) =>
            TotalGain(fifo_gains, a) = TotalGain(lifo_gains, a)

\* 3 units bought in at least two lots and wholly sold in at least two fully
\* matched sales, at a gain
C4_Witness ==
    \E a \in Assets :
        /\ bought[a] = 3
        /\ sold[a] = 3
        /\ EnhancedOf(enhanced_transactions, a) = <<>>
        /\ buy_lots_fifo[a] = <<>>
        /\ FGt(TotalGain(fifo_gains, a), Zero)

(***************************************************************************)
(* C7.  Non-negativity: for every asset the average-cost cumulative        *)
(* quantity and cumulative cost are >= 0, in every state.                  *)
(***************************************************************************)
C7_NonNegative ==
    \A a \in Assets :
        /\ FGe(avg_totals[a].quantity, Zero)
        /\ FGe(avg_totals[a].total_cost, Zero)

\* a sale of more than the holdings has been processed: the clamp was used
C7_Witness ==
    \E a \in Assets :
        /\ bought[a] > 0
        /\ sold[a] > bought[a]
        /\ avg_totals[a].quantity = Zero

(***************************************************************************)
(* Vocabulary of the properties of one SELL step.                          *)
(***************************************************************************)
\* what the ledger d gained for (a, y) in this step
Delta(dOld, dNew, a, y) == FSub(Get(dNew, a, y), Get(dOld, a, y))

\* units taken from lot i when m units are taken from the oldest lots first
TakenFifo(lots, m, i) ==
    FMax(Zero, FMin(lots[i].quantity,
                    FSub(m, SumQuantity(SubSeq(lots, 1, i - 1)))))

\* units taken from lot i when m units are taken from the newest lots first
TakenLifo(lots, m, i) ==
    FMax(Zero, FMin(lots[i].quantity,
                    FSub(m, SumQuantity(SubSeq(lots, i + 1, Len(lots))))))

\* the lots left once taken[i] units are removed from lot i: quantity reduced,
\* price and position kept, emptied lots dropped
Remaining(lots, taken) ==
    SelectSeq([i \in 1..Len(lots) |->
                  [lots[i] EXCEPT !.quantity = FSub(@, taken[i])]],
              LAMBDA l : l.quantity # Zero)

RECURSIVE CostOfTaken(_, _, _)
CostOfTaken(lots, taken, i) ==
    IF i > Len(lots) THEN Zero
    ELSE FAdd(FMul(taken[i], lots[i].price), CostOfTaken(lots, taken, i + 1))

C2_Post(row) ==
    LET a == row.Asset
        y == year(row)
        q == quantity(row)
        p == sale_price(row)
        oldF == buy_lots_fifo[a]
        oldL == buy_lots_lifo[a]
        m == FMin(q, SumQuantity(oldF))
        takenF == [i \in 1..Len(oldF) |-> TakenFifo(oldF, m, i)]
        takenL == [i \in 1..Len(oldL) |-> TakenLifo(oldL, m, i)]
        unmatched == FMul(FSub(q, m), p)
    IN  /\ SumQuantity(oldL) = SumQuantity(oldF)
        /\ buy_lots_fifo'[a] = Remaining(oldF, takenF)
        /\ buy_lots_lifo'[a] = Remaining(oldL, takenL)
        /\ FSub(SumQuantity(oldF), SumQuantity(buy_lots_fifo'[a])) = m
        /\ FSub(SumQuantity(oldL), SumQuantity(buy_lots_lifo'[a])) = m
        /\ FSub(Delta(fifo_gains, fifo_gains', a, y), unmatched)
               = FSub(FMul(m, p), CostOfTaken(oldF, takenF, 1))
        /\ FSub(Delta(lifo_gains, lifo_gains', a, y), unmatched)
               = FSub(FMul(m, p), CostOfTaken(oldL, takenL, 1))

(***************************************************************************)
(* C2.  A SELL of quantity q on an asset holding A units removes exactly   *)
(* min(q, A) units from each inventory, from the oldest lots first in the  *)
(* FIFO inventory and from the newest lots first in the LIFO inventory:    *)
(* whole lots are removed, only the boundary lot is split (price kept),    *)
(* lots not reached are unchanged, and the gain added for the matched part *)
(* is min(q, A) x salePrice - sum of (units taken x lot price).            *)
(***************************************************************************)
C2_SellConsumes == [][\A row \in StepRows : StepSell(row) => C2_Post(row)]_vars

\* BUY 2, BUY 1, SELL 1: FIFO split its oldest lot, LIFO removed its newest
C2_Witness ==
    \E a \in Assets :
        /\ bought[a] = 3
        /\ sold[a] = 1
        /\ Len(buy_lots_fifo[a]) = 2
        /\ Len(buy_lots_lifo[a]) = 1
        /\ a \in DOMAIN fifo_gains

(***************************************************************************)
(* C3.  As claimed: when the loop dispatches a SELL row whose quantity is  *)
(* 0, processing does not fail and goes on with the next row, and the      *)
(* inventories, the average-cost state, the three ledgers and the          *)
(* enhanced-sale list are unchanged.                                       *)
(***************************************************************************)
C3_ZeroSellIsNoOp ==
    [][\A row \in Rows :
          (ttype(row) = SELL /\ row.Quantity = 0 /\ Dispatch(row)) =>
              (pc' = "loop" /\ UNCHANGED store)]_vars

(***************************************************************************)
(* C5.  As claimed: a SELL of q units at price p on an asset whose         *)
(* average-cost holdings are H < q with cumulative cost C adds             *)
(* q x p - C to the ACB ledger, the unmatched q - H units contributing     *)
(* p x (q - H) as they do in the FIFO and LIFO ledgers.                    *)
(***************************************************************************)
C5_ShortSellAcbGain ==
    [][\A row \in Rows :
          (RowSell(row)
             /\ FGt(quantity(row), avg_totals[row.Asset].quantity)) =>
              Delta(avg_cost_gains, avg_cost_gains', row.Asset, year(row))
                = FSub(FMul(quantity(row), sale_price(row)),
                       avg_totals[row.Asset].total_cost)]_vars

RECURSIVE CostOfLots(_)
CostOfLots(lots) ==
    IF lots = <<>> THEN Zero
    ELSE FAdd(FMul(Head(lots).quantity, Head(lots).price), CostOfLots(Tail(lots)))

C6_Post(row) ==
    LET a == row.Asset
        q == quantity(row)
        p == sale_price(row)
        avail == SumQuantity(buy_lots_fifo[a])
        n == Len(enhanced_transactions)
    IN  IF FGt(q, avail)
        THEN /\ Len(enhanced_transactions') = n + 1
             /\ SubSeq(enhanced_transactions', 1, n) = enhanced_transactions
             /\ LET rec == enhanced_transactions'[n + 1] IN
                 /\ rec.Asset = a
                 /\ rec.UTC_Timestamp = row.UTC_Timestamp
                 /\ rec.Quantity = q
                 /\ rec.Matched_Quantity = avail
                 /\ rec.Enhanced_Quantity = FSub(q, avail)
                 /\ sold[a] = 0 =>
                        rec.Enhanced_Quantity = Float(row.Quantity - bought[a])
                 /\ rec.Sale_Price_in_CAD = p
                 /\ rec.Enhanced_Transaction_Value_in_CAD = FMul(FSub(q, avail), p)
                 /\ Delta(fifo_gains, fifo_gains', a, year(row))
                        = FAdd(FSub(FMul(avail, p), CostOfLots(buy_lots_fifo[a])),
                               FMul(rec.Enhanced_Quantity, p))
        ELSE enhanced_transactions' = enhanced_transactions

(***************************************************************************)
(* C6.  Enhanced detection: a SELL appends an enhanced-sale record if and  *)
(* only if its declared quantity is strictly greater than the quantity     *)
(* available in the FIFO inventory just before the sale; it then appends   *)
(* exactly one record with matched = available, enhanced = declared -      *)
(* matched (= declared - total bought when nothing was sold before),       *)
(* value = enhanced x sale price, and the FIFO ledger receives             *)
(* enhanced x sale price at zero cost basis on top of the matched gain.    *)
(***************************************************************************)
C6_EnhancedDetection ==
    [][\A row \in StepRows : StepSell(row) => C6_Post(row)]_vars

\* a partly matched sale with no sale before it has left its record
C6_Witness ==
    \E a \in Assets :
        /\ bought[a] > 0
        /\ Len(EnhancedOf(enhanced_transactions, a)) = 1
        /\ LET rec == EnhancedOf(enhanced_transactions, a)[1] IN
            /\ sold[a] = rec.Quantity[1]
            /\ rec.Matched_Quantity = Float(bought[a])
            /\ FGt(rec.Enhanced_Quantity, Zero)

(***************************************************************************)
(* C8.  Per-asset independence: what the stores hold about each asset      *)
(* (its lots, its average-cost totals, its ledger entries, its enhanced    *)
(* records) is, after every row, exactly what a run fed that asset's rows  *)
(* alone, in the same order, holds about it (solo[a]); the rows of the     *)
(* other assets have changed nothing of it.                                *)
(***************************************************************************)
C8_Independence ==
    \A a \in Assets : Proj(Store, a) = Proj(solo[a], a)

\* rows of the two assets were interleaved: both bought, both sold short
C8_Witness ==
    /\ \A a \in Assets : bought[a] > 0 /\ sold[a] > bought[a]
    /\ Len(enhanced_transactions) = 2
    /\ enhanced_transactions[1].Asset # enhanced_transactions[2].Asset

(***************************************************************************)
(* C9.  The report holds exactly one row for each (asset, year) pair that  *)
(* is a key of at least one of the three ledgers and no other row; each    *)
(* row carries the three ledgers' values for its pair, 0 where a ledger    *)
(* has no entry; rows are ordered by year descending, then by asset        *)
(* ascending.                                                              *)
(***************************************************************************)
C9_ReportRows ==
    pc = "reported" =>
        LET K == Keys(fifo_gains) \cup Keys(lifo_gains) \cup Keys(avg_cost_gains)
            n == Len(report)
            val(d, r) == IF <<r.Asset, r.Year>> \in Keys(d)
                         THEN d[r.Asset][r.Year] ELSE Zero
        IN  /\ n = Cardinality(K)
            /\ {<<report[i].Asset, report[i].Year>> : i \in 1..n} = K
            /\ \A i \in 1..n :
                   /\ report[i].FIFO_GL = val(fifo_gains, report[i])
                   /\ report[i].LIFO_GL = val(lifo_gains, report[i])
                   /\ report[i].ACB_GL = val(avg_cost_gains, report[i])
            /\ \A i, j \in 1..n :
                   i < j =>
                      \/ report[i].Year > report[j].Year
                      \/ /\ report[i].Year = report[j].Year
                         /\ AssetRank(report[i].Asset) < AssetRank(report[j].Asset)

\* a report of four rows, one of them zero-filled for the FIFO ledger
C9_Witness ==
    /\ pc = "reported"
    /\ Len(report) = 4
    /\ \E i \in 1..Len(report) :
           /\ <<report[i].Asset, report[i].Year>> \notin Keys(fifo_gains)
           /\ report[i].FIFO_GL = Zero
           /\ report[i].LIFO_GL # Zero

C10_Pre(row) ==
    /\ buy_lots_fifo[row.Asset] = <<>>
    /\ buy_lots_lifo[row.Asset] = <<>>
    /\ avg_totals[row.Asset] = [quantity |-> Zero, total_cost |-> Zero]

C10_Post(row) ==
    LET a == row.Asset
        y == year(row)
        V == total_value(row)
        n == Len(enhanced_transactions)
    IN  /\ Delta(fifo_gains, fifo_gains', a, y) = V
        /\ Delta(lifo_gains, lifo_gains', a, y) = V
        /\ Delta(avg_cost_gains, avg_cost_gains', a, y) = V
        /\ Len(enhanced_transactions') = n + 1
        /\ SubSeq(enhanced_transactions', 1, n) = enhanced_transactions
        /\ enhanced_transactions'[n + 1].Asset = a
        /\ enhanced_transactions'[n + 1].Matched_Quantity = Zero
        /\ enhanced_transactions'[n + 1].Enhanced_Quantity = quantity(row)
        /\ buy_lots_fifo'[a] = <<>>
        /\ buy_lots_lifo'[a] = <<>>
        /\ avg_totals'[a] = [quantity |-> Zero, total_cost |-> Zero]

(***************************************************************************)
(* C10.  A SELL of q > 0 units of total value V on an asset with empty     *)
(* inventories and zero average-cost state is entirely unmatched: it adds  *)
(* V to each of the three ledgers for its asset and year, appends exactly  *)
(* one enhanced-sale record with matched quantity 0 and enhanced quantity  *)
(* q, and leaves the inventories empty and the average-cost state at 0.    *)
(***************************************************************************)
C10_UnmatchedSell ==
    [][\A row \in StepRows : (C10_Pre(row) /\ StepSell(row)) => C10_Post(row)]_vars

\* an asset never bought has been sold once
C10_Witness ==
    \E a \in Assets :
        /\ bought[a] = 0
        /\ sold[a] > 0
        /\ Len(EnhancedOf(enhanced_transactions, a)) = 1
        /\ EnhancedOf(enhanced_transactions, a)[1].Matched_Quantity = Zero
        /\ a \in DOMAIN avg_cost_gains
        /\ a \in DOMAIN lifo_gains

C11_Pre(row) ==
    LET a == row.Asset IN
    /\ sold[a] = 0
    /\ Len(buy_lots_fifo[a]) = 1
    /\ row.Quantity > 0
    /\ row.Quantity <= bought[a]

C11_Post(row) ==
    LET a == row.Asset
        y == YearOf(row.UTC_Timestamp)
        lot == buy_lots_fifo[a][1]
        q == Float(bought[a])
        c == lot.price
        s == Float(row.Quantity)
        p == FDiv(Float(row.Transaction_Value_in_CAD), s)
        g == FMul(s, FSub(p, c))
        rest == [quantity |-> FSub(q, s), price |-> c, timestamp |-> lot.timestamp]
    IN  /\ <<a, y>> \in Keys(fifo_gains') /\ fifo_gains'[a][y] = g
        /\ <<a, y>> \in Keys(lifo_gains') /\ lifo_gains'[a][y] = g
        /\ <<a, y>> \in Keys(avg_cost_gains') /\ avg_cost_gains'[a][y] = g
        /\ enhanced_transactions' = enhanced_transactions
        /\ FGt(q, s) =>
               /\ buy_lots_fifo'[a] = <<rest>>
               /\ buy_lots_lifo'[a] = <<rest>>
               /\ avg_totals'[a] =
                      [quantity |-> FSub(q, s), total_cost |-> FMul(FSub(q, s), c)]

(***************************************************************************)
(* C11.  For an asset with a single BUY of q units at unit price c (total  *)
(* value q x c) followed by one SELL of s units, 0 < s <= q, at sale price *)
(* p: the FIFO, LIFO and ACB ledger entries of the asset for the sale's    *)
(* year are all s x (p - c), no enhanced-sale record is created, and when  *)
(* s < q each inventory holds one lot of q - s units at price c and the    *)
(* average-cost state is quantity q - s and cost (q - s) x c.              *)
(***************************************************************************)
C11_SingleBuySell ==
    [][\A row \in StepRows : (C11_Pre(row) /\ StepSell(row)) => C11_Post(row)]_vars

\* the run was BUY 2 then SELL 1 of one asset, at a gain or a loss
C11_Witness ==
    \E a \in Assets :
        /\ nrows = 2
        /\ bought[a] = 2
        /\ sold[a] = 1
        /\ Len(buy_lots_fifo[a]) = 1
        /\ buy_lots_fifo[a][1].quantity = Float(1)
        /\ TotalGain(avg_cost_gains, a) # Zero


(***************************************************************************)
(* Vocabulary of C12: s spells the word w when it is w in any casing       *)
(* between any number of blanks.                                           *)
(***************************************************************************)
LowerOf(c) ==
    CASE c = "B" -> "b" [] c = "U" -> "u" [] c = "Y" -> "y"
      [] c = "S" -> "s" [] c = "E" -> "e" [] c = "L" -> "l"
      [] OTHER -> c

Spells(s, w) ==
    \E i \in 0..Len(s) :
        /\ i + Len(w) <= Len(s)
        /\ \A k \in 1..i : s[k] = " "
        /\ \A k \in (i + Len(w) + 1)..Len(s) : s[k] = " "
        /\ \A k \in 1..Len(w) : s[i + k] \in {w[k], LowerOf(w[k])}

\* the type strings of the input that spell "buy", and those that spell "sell"
SpellBuy == {s \in TypeStrings : Spells(s, BUY)}
SpellSell == {s \in TypeStrings : Spells(s, SELL)}

\* the records of an enhanced-sale list without their Transaction Type
Untyped(enhanced) ==
    [i \in 1..Len(enhanced) |-> [enhanced[i] EXCEPT !.Transaction_Type = <<>>]]

C12_Post(row) ==
    LET canon(w) == [row EXCEPT !.Transaction_Type = w] IN
    IF row.Transaction_Type \in SpellBuy
    THEN /\ pc' = "loop"
         /\ Store' = process_buy(canon(BUY), Store)
    ELSE IF row.Transaction_Type \in SpellSell
    THEN row.Quantity > 0 =>
            LET S2 == process_sell(canon(SELL), Store) IN
            /\ pc' = "loop"
            /\ buy_lots_fifo' = S2.buy_lots_fifo
            /\ buy_lots_lifo' = S2.buy_lots_lifo
            /\ avg_totals' = S2.avg_totals
            /\ fifo_gains' = S2.fifo_gains
            /\ lifo_gains' = S2.lifo_gains
            /\ avg_cost_gains' = S2.avg_cost_gains
            /\ Untyped(enhanced_transactions') = Untyped(S2.enhanced_transactions)
    ELSE /\ pc' = "loop"
         /\ UNCHANGED store

(***************************************************************************)
(* C12.  A row whose Transaction Type spells "buy" (resp. "sell") in any   *)
(* casing and between any blanks is processed exactly as the same row      *)
(* typed BUY (resp. SELL, for a positive quantity; the enhanced-sale       *)
(* record keeps the row's own spelling in its Transaction Type column); a  *)
(* row of any other type leaves the inventories, the average-cost state,   *)
(* the three ledgers and the enhanced-sale list unchanged and the loop     *)
(* goes on with the next row.                                              *)
(***************************************************************************)
C12_TypeNormalized ==
    [][\A row \in StepRows : StepDispatch(row) => C12_Post(row)]_vars

\* three rows: " buy" and "Sell " of ETH were processed, a HOLD row was ignored
C12_Witness ==
    /\ pc = "loop"
    /\ nrows = 3
    /\ bought = [a \in Assets |-> IF a = "ETH" THEN 1 ELSE 0]
    /\ sold = [a \in Assets |-> IF a = "ETH" THEN 2 ELSE 0]
    /\ Len(enhanced_transactions) = 1
    /\ enhanced_transactions[1].Transaction_Type = <<"S", "e", "l", "l", " ">>


(***************************************************************************)
(* C13.  The enhanced-sale list is append-only: in every step the list     *)
(* before the step is a prefix of the list after it and at most one entry  *)
(* is added; a BUY step leaves the list unchanged; a SELL step whose       *)
(* quantity exceeds the FIFO inventory adds one entry whether or not an    *)
(* equal entry is already in the list.                                     *)
(***************************************************************************)
C13_AppendOnly ==
    [][LET n == Len(enhanced_transactions) IN
       /\ Len(enhanced_transactions') \in {n, n + 1}
       /\ SubSeq(enhanced_transactions', 1, n) = enhanced_transactions
       /\ bought' # bought => enhanced_transactions' = enhanced_transactions
       /\ \A a \in Assets :
              FGt(Float(sold'[a] - sold[a]), SumQuantity(buy_lots_fifo[a])) =>
                  /\ Len(enhanced_transactions') = n + 1
                  /\ enhanced_transactions'[n + 1].Asset = a
                  /\ enhanced_transactions'[n + 1].Quantity = Float(sold'[a] - sold[a])
      ]_vars

\* two SELLs with identical fields have left two equal entries
C13_Witness ==
    /\ Len(enhanced_transactions) = 2
    /\ enhanced_transactions[1] = enhanced_transactions[2]


C14_Aborted ==
    pc = "invalid" =>
        /\ nrows = 0
        /\ Store = EmptyStore
        /\ report = <<>>
        /\ written = {}

C14_Step ==
    /\ pc # "invalid"
    /\ \A missing_cols \in BOOLEAN, empty \in BOOLEAN :
           (Validate(missing_cols, empty) /\ (missing_cols \/ empty)) =>
               pc' = "invalid"

(***************************************************************************)
(* C14.  When the input misses a required column or holds no row,          *)
(* validation raises before anything else happens: no row has been         *)
(* dispatched, every inventory and ledger is as empty as at the start,     *)
(* no report has been built and no file written; and nothing happens       *)
(* afterwards (no step leaves the invalid state).                          *)
(***************************************************************************)
C14_ValidationAborts == []C14_Aborted /\ [][C14_Step]_vars

\* validation has raised
C14_Witness ==
    /\ pc = "invalid"
    /\ written = {}


(***************************************************************************)
(* C15.  Idempotence of reporting: once generate_report_df has been called *)
(* on three ledgers, calling it again on the same three ledger objects (as *)
(* the first call left them) returns the same rows in the same order.      *)
(***************************************************************************)
C15_ReportIdempotent ==
    pc = "reported" =>
        generate_report_df(fifo_gains, lifo_gains, avg_cost_gains) = report

\* the first call has created an asset key in a ledger that lacked it
C15_Witness ==
    /\ pc = "reported"
    /\ Len(report) >= 2
    /\ \E a \in DOMAIN fifo_gains :
           /\ fifo_gains[a] = EmptyDict
           /\ a \in DOMAIN lifo_gains
           /\ lifo_gains[a] # EmptyDict


C16_Post(row) ==
    LET a == row.Asset
        Q == avg_totals[a].quantity
        C == avg_totals[a].total_cost
        q == Float(row.Quantity)
        p == FDiv(Float(row.Transaction_Value_in_CAD), q)
        Q2 == avg_totals'[a].quantity
        C2 == avg_totals'[a].total_cost
    IN  IF FGe(Q, q)
        THEN /\ Delta(avg_cost_gains, avg_cost_gains', a, YearOf(row.UTC_Timestamp))
                    = FMul(q, FSub(p, FDiv(C, Q)))
             /\ Q2 = FSub(Q, q)
             /\ C2 = FSub(C, FMul(q, FDiv(C, Q)))
             /\ FMul(C2, Q) = FMul(C, FSub(Q, q))
             /\ q = Q => (Q2 = Zero /\ C2 = Zero)
        ELSE /\ Q2 = Zero
             /\ C2 = Zero

(***************************************************************************)
(* C16.  A SELL of q units, 0 < q <= Q, on an asset whose average-cost     *)
(* state is quantity Q and cost C books q x (p - C / Q) with the average   *)
(* taken before the update, and leaves quantity Q - q and cost             *)
(* C - q x (C / Q), so that cost' x Q = C x (Q - q) (the average unit cost *)
(* of what remains is unchanged) and q = Q leaves quantity 0 and cost 0; a *)
(* SELL with q > Q leaves quantity 0 and cost 0 as well.                   *)
(***************************************************************************)
C16_ProportionalReduction ==
    [][\A row \in StepRows : StepSell(row) => C16_Post(row)]_vars

\* a holding bought at two prices was partly sold: its cost is a fraction
C16_Witness ==
    \E a \in Assets :
        /\ sold[a] > 0
        /\ FGt(avg_totals[a].quantity, Zero)
        /\ avg_totals[a].total_cost[2] = 3


\* every lot of after is a lot of a contiguous run of before, in the same
\* order, with its price and timestamp and a positive quantity not above it
Shrunk(after, before) ==
    \E i \in 1..(Len(before) + 1) :
        /\ i + Len(after) - 1 <= Len(before)
        /\ \A k \in 1..Len(after) :
               /\ after[k].price = before[i + k - 1].price
               /\ after[k].timestamp = before[i + k - 1].timestamp
               /\ FGt(after[k].quantity, Zero)
               /\ FGe(before[i + k - 1].quantity, after[k].quantity)

C17_Lots ==
    \A a \in Assets :
        \A lots \in {buy_lots_fifo[a], buy_lots_lifo[a]} :
            \A i \in 1..Len(lots) :
                /\ FGt(lots[i].quantity, Zero)
                /\ lots[i].price = Float(PriceAt[a][lots[i].timestamp])

C17_Step ==
    \A a \in Assets :
        LET b == bought'[a] - bought[a]
            new == IF b > 0
                   THEN <<[ quantity |-> Float(b),
                            price |-> Float(PriceAt[a][lastTs']),
                            timestamp |-> lastTs' ]>>
                   ELSE <<>>
            ok(after, before) ==
                /\ Len(after) >= Len(new)
                /\ SubSeq(after, Len(after) - Len(new) + 1, Len(after)) = new
                /\ Shrunk(SubSeq(after, 1, Len(after) - Len(new)), before)
        IN  /\ ok(buy_lots_fifo'[a], buy_lots_fifo[a])
            /\ ok(buy_lots_lifo'[a], buy_lots_lifo[a])

(***************************************************************************)
(* C17.  Every lot stored in the FIFO or the LIFO inventory of any asset   *)
(* has a quantity > 0 and the price of the BUY that created it; in every   *)
(* step each stored lot is either the lot the step's BUY created, with     *)
(* that BUY's quantity and price, or a lot stored before the step with its *)
(* price kept and its quantity not increased, so that no lot ever exceeds  *)
(* its purchased quantity and a lot that reaches 0 is not kept.            *)
(***************************************************************************)
C17_LotsPositive == []C17_Lots /\ [][C17_Step]_vars

\* of two lots bought, a sale has emptied and removed one and reduced the other
C17_Witness ==
    \E a \in Assets :
        /\ nrows = 3
        /\ bought[a] = 3
        /\ sold[a] = 2
        /\ Len(buy_lots_fifo[a]) = 1
        /\ Len(buy_lots_lifo[a]) = 1
        /\ buy_lots_fifo[a][1].quantity = Float(1)
        /\ buy_lots_lifo[a][1].quantity = Float(1)


\* the ledgers d1 and d2 have the same entries, but possibly that of (a, y)
SameElsewhere(d1, d2, a, y) ==
    \A b \in DOMAIN d1 \cup DOMAIN d2 :
        LET i1 == LedgerOf(d1, b)
            i2 == LedgerOf(d2, b)
        IN  \A z \in DOMAIN i1 \cup DOMAIN i2 :
                <<b, z>> # <<a, y>> =>
                    /\ z \in DOMAIN i1
                    /\ z \in DOMAIN i2
                    /\ i1[z] = i2[z]

\* the ledgers d1 and d2 have the same entries
SameEntries(d1, d2) ==
    \A b \in DOMAIN d1 \cup DOMAIN d2 : LedgerOf(d1, b) = LedgerOf(d2, b)

C18_BuyPost(row) ==
    LET a == row.Asset
        lot == [ quantity |-> Float(row.Quantity),
                 price |-> Float(row.Asset_Price_in_CAD),
                 timestamp |-> row.UTC_Timestamp ]
    IN  /\ buy_lots_fifo'[a] = Append(buy_lots_fifo[a], lot)
        /\ buy_lots_lifo'[a] = Append(buy_lots_lifo[a], lot)
        /\ avg_totals'[a].quantity
               = FAdd(avg_totals[a].quantity, Float(row.Quantity))
        /\ avg_totals'[a].total_cost
               = FAdd(avg_totals[a].total_cost, Float(row.Transaction_Value_in_CAD))
        /\ fifo_gains' = fifo_gains
        /\ lifo_gains' = lifo_gains
        /\ avg_cost_gains' = avg_cost_gains
        /\ enhanced_transactions' = enhanced_transactions

C18_SellPost(row) ==
    LET a == row.Asset
        y == YearOf(row.UTC_Timestamp)
    IN  /\ SameElsewhere(fifo_gains, fifo_gains', a, y)
        /\ SameElsewhere(lifo_gains, lifo_gains', a, y)
        /\ SameElsewhere(avg_cost_gains, avg_cost_gains', a, y)
        /\ <<a, y>> \in Keys(fifo_gains') \cap Keys(lifo_gains')
                          \cap Keys(avg_cost_gains')

(***************************************************************************)
(* C18.  A BUY appends one lot with its quantity and price to the end of   *)
(* both inventories of its asset, adds its quantity and total value to the *)
(* asset's average-cost state and leaves the three ledgers and the         *)
(* enhanced-sale list unchanged; a SELL of asset A dated in year Y writes  *)
(* the (A, Y) entry of each ledger and leaves every other entry of every   *)
(* ledger unchanged; a step that is not a SELL changes no ledger entry.    *)
(***************************************************************************)
C18_GainsOnlyBySell ==
    [][/\ \A row \in StepRows :
              /\ StepBuy(row) => C18_BuyPost(row)
              /\ StepSell(row) => C18_SellPost(row)
       /\ sold' = sold =>
              /\ SameEntries(fifo_gains, fifo_gains')
              /\ SameEntries(lifo_gains, lifo_gains')
              /\ SameEntries(avg_cost_gains, avg_cost_gains')
      ]_vars

\* an asset was sold in both years and bought after a sale
C18_Witness ==
    \E a \in Assets :
        /\ {<<a, y>> : y \in Years} \subseteq Keys(fifo_gains)
        /\ buy_lots_fifo[a] # <<>>
        /\ sold[a] > bought[a]


C19_SameQuantity ==
    \A a \in Assets :
        /\ avg_totals[a].quantity = SumQuantity(buy_lots_fifo[a])
        /\ avg_totals[a].quantity = SumQuantity(buy_lots_lifo[a])

C19_Step ==
    \A a \in Assets :
        sold'[a] # sold[a] =>
            LET q == Float(sold'[a] - sold[a]) IN
            /\ FMin(q, avg_totals[a].quantity) = FMin(q, SumQuantity(buy_lots_fifo[a]))
            /\ FMin(q, avg_totals[a].quantity) = FMin(q, SumQuantity(buy_lots_lifo[a]))
            /\ FGt(q, avg_totals[a].quantity)
                   <=> Len(enhanced_transactions') = Len(enhanced_transactions) + 1

(***************************************************************************)
(* C19.  For every asset, in every state, the average-cost cumulative      *)
(* quantity equals the total remaining quantity of the FIFO inventory and  *)
(* of the LIFO inventory; so for every SELL the matched quantity           *)
(* min(q, available) is the same under the three methods, and the SELL     *)
(* exceeds the average-cost holdings exactly when it appends an            *)
(* enhanced-sale record.                                                   *)
(***************************************************************************)
C19_AcbQuantityIsInventory == []C19_SameQuantity /\ [][C19_Step]_vars

\* an asset sold short, the clamp used, then bought again and partly sold
C19_Witness ==
    \E a \in Assets :
        /\ EnhancedOf(enhanced_transactions, a) # <<>>
        /\ sold[a] > bought[a]
        /\ FGt(avg_totals[a].quantity, Zero)
        /\ buy_lots_fifo[a] # buy_lots_lifo[a]


(***************************************************************************)
(* C20.  In every state the FIFO, the LIFO and the ACB ledger have the     *)
(* same set of (asset, year) keys, namely the pairs for which a SELL has   *)
(* been processed, and the same asset keys; so every row of the report     *)
(* comes from an entry present in all three ledgers and no value of the    *)
(* report is a zero filled in for a missing entry.                         *)
(***************************************************************************)
C20_SameKeys ==
    /\ Keys(fifo_gains) = sell_keys
    /\ Keys(lifo_gains) = sell_keys
    /\ Keys(avg_cost_gains) = sell_keys
    /\ DOMAIN fifo_gains = {k[1] : k \in sell_keys}
    /\ DOMAIN lifo_gains = DOMAIN fifo_gains
    /\ DOMAIN avg_cost_gains = DOMAIN fifo_gains
    /\ \A i \in 1..Len(report) :
           <<report[i].Asset, report[i].Year>> \in sell_keys

\* the report of a run with a fully matched sale and a sale of a never-bought
\* asset
C20_Witness ==
    /\ pc = "reported"
    /\ Len(report) >= 2
    /\ \E a \in Assets : bought[a] > 0 /\ sold[a] = bought[a]
    /\ \E b \in Assets : bought[b] = 0 /\ sold[b] > 0


====
